---- MODULE Spec2Model ----
(***************************************************************************)
(* Model of class Spreadsheet (Spreadsheet.py): the session state, the     *)
(* two queues of prepared updates, runPrepared / addSheet and their remote *)
(* calls, and the range parser toGridRange.                                *)
(*                                                                         *)
(* Conventions                                                             *)
(*   - a Python str is a sequence of one-character strings;                *)
(*   - a Python dict is a function whose domain is its set of keys;        *)
(*   - an attribute that may be None is <<>> (None) or <<v>> (the value);  *)
(*   - an operation's result is a record whose field "outcome" is "ok" or  *)
(*     the name of the exception that reached the caller.                  *)
(***************************************************************************)
EXTENDS Integers, Sequences, FiniteSets, TLC

\* ------------------------------------------------------------------ bounds
\* longest range string handed to toGridRange in the parser specification
MaxLen == 5
\* number of items (structural requests and value writes) queued in one run
MaxItems == 2

\* --------------------------------------------------------- Python helpers
None == << >>
Some(v) == << v >>
Val(o) == o[1]

Range(s) == { s[i] : i \in 1..Len(s) }

\* the empty dict {}
EmptyDict == [k \in {} |-> 0]

\* d[k] = v on a dict
Put(d, k, v) == [x \in (DOMAIN d) \cup {k} |-> IF x = k THEN v ELSE d[x]]

Letters == << "A", "B", "C", "D", "E", "F", "G", "H", "I", "J", "K", "L", "M",
              "N", "O", "P", "Q", "R", "S", "T", "U", "V", "W", "X", "Y", "Z" >>

Digits == << "0", "1", "2", "3", "4", "5", "6", "7", "8", "9" >>

IndexOf(seq, c) == CHOOSE i \in 1..Len(seq) : seq[i] = c

\* ord(c) for the characters a range string is made of
Ord(c) ==
    IF c \in Range(Letters) THEN 64 + IndexOf(Letters, c)
    ELSE IF c \in Range(Digits) THEN 47 + IndexOf(Digits, c)
    ELSE IF c = ":" THEN 58
    ELSE 33

\* range(ord('A'), ord('Z') + 1)
rangeAZ == Ord("A") .. Ord("Z")

\* s[1:]
Tail1(s) == SubSeq(s, 2, Len(s))

\* str.split(sep): the pieces of s between the occurrences of sep
RECURSIVE Split(_, _)
Split(s, sep) ==
    IF \A i \in 1..Len(s) : s[i] # sep
    THEN << s >>
    ELSE LET p == CHOOSE i \in 1..Len(s) :
                      s[i] = sep /\ \A j \in 1..(i - 1) : s[j] # sep
         IN  << SubSeq(s, 1, p - 1) >> \o Split(SubSeq(s, p + 1, Len(s)), sep)

\* seq[0:2]
FirstTwo(seq) == SubSeq(seq, 1, IF Len(seq) < 2 THEN Len(seq) ELSE 2)

\* int(s) accepts s (over the characters modelled) iff s is a non-empty
\* string of decimal digits
IsInt(s) == Len(s) > 0 /\ \A i \in 1..Len(s) : s[i] \in Range(Digits)

RECURSIVE ParseInt(_)
ParseInt(s) ==
    IF Len(s) = 0 THEN 0
    ELSE 10 * ParseInt(SubSeq(s, 1, Len(s) - 1)) + (Ord(s[Len(s)]) - Ord("0"))

\* a cellsRange argument: a str or an already built dict
StrArg(s) == [type |-> "str", val |-> s]
DictArg(d) == [type |-> "dict", val |-> d]

Raise(e) == [outcome |-> e]
Return(v) == [outcome |-> "ok", value |-> v]

\* Spreadsheet.toGridRange, the isinstance(cellsRange, str) branch: the
\* statements run in the order of the code, the first exception wins
\* the 1-based row adjustment applied to the end row instead of the start row
toGridRangeStr_adjustsWrongEnd(s) ==
    LET parts == FirstTwo(Split(s, ":"))
    IN  IF Len(parts) # 2 THEN Raise("ValueError")
        ELSE
        LET startCell == parts[1]
            endCell == parts[2]
        IN  IF Len(startCell) = 0 THEN Raise("IndexError")
            ELSE
            LET startHasCol == Ord(startCell[1]) \in rangeAZ
                r1 == IF startHasCol
                      THEN Put(EmptyDict, "startColumnIndex", Ord(startCell[1]) - Ord("A"))
                      ELSE EmptyDict
                startRest == IF startHasCol THEN Tail1(startCell) ELSE startCell
            IN  IF Len(endCell) = 0 THEN Raise("IndexError")
                ELSE
                LET endHasCol == Ord(endCell[1]) \in rangeAZ
                    r2 == IF endHasCol
                          THEN Put(r1, "endColumnIndex", Ord(endCell[1]) - Ord("A") + 1)
                          ELSE r1
                    endRest == IF endHasCol THEN Tail1(endCell) ELSE endCell
                IN  IF Len(startRest) > 0 /\ ~IsInt(startRest) THEN Raise("ValueError")
                    ELSE
                    LET r3 == IF Len(startRest) > 0
                              THEN Put(r2, "startRowIndex", ParseInt(startRest))
                              ELSE r2
                    IN  IF Len(endRest) > 0 /\ ~IsInt(endRest) THEN Raise("ValueError")
                        ELSE Return(IF Len(endRest) > 0
                                    THEN Put(r3, "endRowIndex", ParseInt(endRest) - 1)
                                    ELSE r3)

toGridRangeStr(s) ==
    LET parts == FirstTwo(Split(s, ":"))
    IN  IF Len(parts) # 2 THEN Raise("ValueError")
        ELSE
        LET startCell == parts[1]
            endCell == parts[2]
        IN  IF Len(startCell) = 0 THEN Raise("IndexError")
            ELSE
            LET startHasCol == Ord(startCell[1]) \in rangeAZ
                r1 == IF startHasCol
                      THEN Put(EmptyDict, "startColumnIndex", Ord(startCell[1]) - Ord("A"))
                      ELSE EmptyDict
                startRest == IF startHasCol THEN Tail1(startCell) ELSE startCell
            IN  IF Len(endCell) = 0 THEN Raise("IndexError")
                ELSE
                LET endHasCol == Ord(endCell[1]) \in rangeAZ
                    r2 == IF endHasCol
                          THEN Put(r1, "endColumnIndex", Ord(endCell[1]) - Ord("A") + 1)
                          ELSE r1
                    endRest == IF endHasCol THEN Tail1(endCell) ELSE endCell
                IN  IF Len(startRest) > 0 /\ ~IsInt(startRest) THEN Raise("ValueError")
                    ELSE
                    LET r3 == IF Len(startRest) > 0
                              THEN Put(r2, "startRowIndex", ParseInt(startRest) - 1)
                              ELSE r2
                    IN  IF Len(endRest) > 0 /\ ~IsInt(endRest) THEN Raise("ValueError")
                        ELSE Return(IF Len(endRest) > 0
                                    THEN Put(r3, "endRowIndex", ParseInt(endRest))
                                    ELSE r3)

\* toGridRange keeping the sheetId a dict argument already carries
toGridRange_fillsStartRow(sid, cellsRange) ==
    IF sid = None THEN Raise("SheetNotSetError")
    ELSE LET parsed == IF cellsRange.type = "str"
                       THEN toGridRangeStr(cellsRange.val)
                       ELSE Return(IF "startRowIndex" \in DOMAIN cellsRange.val
                                   THEN cellsRange.val
                                   ELSE Put(cellsRange.val, "startRowIndex", 0))
         IN  IF parsed.outcome # "ok" THEN parsed
             ELSE Return(Put(parsed.value, "sheetId", Val(sid)))

toGridRange_keepSheetId(sid, cellsRange) ==
    IF sid = None THEN Raise("SheetNotSetError")
    ELSE LET parsed == IF cellsRange.type = "str"
                       THEN toGridRangeStr(cellsRange.val)
                       ELSE Return(cellsRange.val)
         IN  IF parsed.outcome # "ok" THEN parsed
             ELSE IF "sheetId" \in DOMAIN parsed.value THEN parsed
             ELSE Return(Put(parsed.value, "sheetId", Val(sid)))

\* Spreadsheet.toGridRange(cellsRange) with self.sheetId = sid
toGridRange(sid, cellsRange) ==
    IF sid = None THEN Raise("SheetNotSetError")
    ELSE LET parsed == IF cellsRange.type = "str"
                       THEN toGridRangeStr(cellsRange.val)
                       ELSE Return(cellsRange.val)
         IN  IF parsed.outcome # "ok" THEN parsed
             ELSE Return(Put(parsed.value, "sheetId", Val(sid)))

\* ------------------------------------------------------------- the session
VARIABLES
    spreadsheetId,  \* self.spreadsheetId: None or Some(id)
    sheetId,        \* self.sheetId: None or Some(integer)
    sheetTitle,     \* self.sheetTitle: None or Some(str)
    requests,       \* self.requests: the queued structural requests
    valueRanges,    \* self.valueRanges: the queued value writes
    last,           \* the operation that produced this state: its name, argument,
                    \* outcome, returned value and the remote calls it issued
    hist            \* history: for every item ever queued, what was asked for and
                    \* what has happened to it since

vars == << spreadsheetId, sheetId, sheetTitle, requests, valueRanges, last, hist >>

\* default arguments rows = 1000, cols = 26 of prepare_addSheet and addSheet
DefaultRows == 1000
DefaultCols == 26

\* sheet titles and the other strings the operations are called with
Sheet1 == << "S", "h", "e", "e", "t", "1" >>
T2 == << "T", "2" >>
T3 == << "T", "3" >>
A1A1 == << "A", "1", ":", "A", "1" >>
A3B4 == << "A", "3", ":", "B", "4" >>
ColonB4 == << ":", "B", "4" >>

\* a queued item: its payload, and the sequence number it got when it was queued
\* (the payload is what the code appends; the number only tells items apart)
Item(id, body) == [id |-> id, body |-> body]

Bodies(q) == [i \in 1..Len(q) |-> q[i].body]
Ids(q) == [i \in 1..Len(q) |-> q[i].id]

\* ------------------------------------------------------- the remote service
\* spreadsheets().get(spreadsheetId).execute(): the first sheet of the
\* spreadsheets that exist remotely
ExistingIds == { "ss7" }
getSpreadsheet(id) ==
    [spreadsheetId |-> id,
     sheets |-> << [properties |-> [sheetId |-> 7, title |-> Sheet1]] >>]

\* spreadsheets().create(body).execute(): the service creates what was asked for
createSpreadsheet(body) ==
    [spreadsheetId |-> "new",
     sheets |-> << [properties |-> [sheetId |-> body.sheets[1].properties.sheetId,
                                    title |-> body.sheets[1].properties.title]] >>]

\* identifiers the service gives to added sheets: the request at position i of a
\* batch gets NewSheetBase + i
NewSheetBase == 10

\* spreadsheets().batchUpdate: one reply per request, positionally aligned
batchUpdateReplies(bodies) ==
    [i \in 1..Len(bodies) |->
        IF "addSheet" \in DOMAIN bodies[i]
        THEN [addSheet |-> [properties |->
                 [sheetId |-> NewSheetBase + i,
                  title |-> bodies[i].addSheet.properties.title]]]
        ELSE EmptyDict]

\* spreadsheets().values().batchUpdate: one response per value range
valuesBatchUpdateResponses(data) ==
    [i \in 1..Len(data) |-> [updatedRange |-> data[i].range]]

\* what the service does with the two calls of one runPrepared: each either
\* answers or fails (HttpError)
RemoteOutcomes == [batchUpdate : BOOLEAN, valuesBatchUpdate : BOOLEAN]

\* ------------------------------------------------------------- runPrepared
\* what a call of a method leaves behind: the outcome, the returned value, the
\* remote calls issued, and the two queues
Result(outcome, value, calls, reqs, vals) ==
    [outcome |-> outcome, value |-> value, calls |-> calls,
     requests |-> reqs, valueRanges |-> vals]

batchUpdateCall(ssid, reqs) ==
    [api |-> "batchUpdate", spreadsheetId |-> Val(ssid),
     body |-> [requests |-> Bodies(reqs)], ids |-> Ids(reqs)]

valuesBatchUpdateCall(ssid, vals, valueInputOption) ==
    [api |-> "values.batchUpdate", spreadsheetId |-> Val(ssid),
     body |-> [valueInputOption |-> valueInputOption, data |-> Bodies(vals)],
     ids |-> Ids(vals)]

\* the try block going on to the value-write call after the structural call failed
tryBlock_continuesAfterFailure(ssid, reqs, vals, valueInputOption, remote) ==
    LET calls1 == IF Len(reqs) > 0 THEN << batchUpdateCall(ssid, reqs) >> ELSE << >>
        upd1Res == IF Len(reqs) > 0
                   THEN [replies |-> batchUpdateReplies(Bodies(reqs))]
                   ELSE [replies |-> << >>]
        calls2 == IF Len(vals) > 0
                  THEN calls1 \o << valuesBatchUpdateCall(ssid, vals, valueInputOption) >>
                  ELSE calls1
        upd2Res == IF Len(vals) > 0
                   THEN [responses |-> valuesBatchUpdateResponses(Bodies(vals))]
                   ELSE [responses |-> << >>]
    IN  IF Len(reqs) > 0 /\ ~remote.batchUpdate
        THEN Result("HttpError", None, calls2, reqs, vals)
        ELSE IF Len(vals) > 0 /\ ~remote.valuesBatchUpdate
        THEN Result("HttpError", None, calls2, reqs, vals)
        ELSE Result("ok", << upd1Res.replies, upd2Res.responses >>, calls2, reqs, vals)

\* the try block without the two len(...) > 0 tests: both calls are always issued
tryBlock_alwaysCalls(ssid, reqs, vals, valueInputOption, remote) ==
    LET calls1 == << batchUpdateCall(ssid, reqs) >>
        calls2 == calls1 \o << valuesBatchUpdateCall(ssid, vals, valueInputOption) >>
    IN  IF ~remote.batchUpdate
        THEN Result("HttpError", None, calls1, reqs, vals)
        ELSE IF ~remote.valuesBatchUpdate
        THEN Result("HttpError", None, calls2, reqs, vals)
        ELSE Result("ok", << batchUpdateReplies(Bodies(reqs)),
                             valuesBatchUpdateResponses(Bodies(vals)) >>, calls2, reqs, vals)

\* the try block of runPrepared (lines 101-112): up to two remote calls, the
\* second only when the first did not raise
tryBlock(ssid, reqs, vals, valueInputOption, remote) ==
    LET calls1 == IF Len(reqs) > 0 THEN << batchUpdateCall(ssid, reqs) >> ELSE << >>
        upd1Res == IF Len(reqs) > 0
                   THEN [replies |-> batchUpdateReplies(Bodies(reqs))]
                   ELSE [replies |-> << >>]
        calls2 == IF Len(vals) > 0
                  THEN calls1 \o << valuesBatchUpdateCall(ssid, vals, valueInputOption) >>
                  ELSE calls1
        upd2Res == IF Len(vals) > 0
                   THEN [responses |-> valuesBatchUpdateResponses(Bodies(vals))]
                   ELSE [responses |-> << >>]
    IN  IF Len(reqs) > 0 /\ ~remote.batchUpdate
        THEN Result("HttpError", None, calls1, reqs, vals)
        ELSE IF Len(vals) > 0 /\ ~remote.valuesBatchUpdate
        THEN Result("HttpError", None, calls2, reqs, vals)
        ELSE Result("ok", << upd1Res.replies, upd2Res.responses >>, calls2, reqs, vals)

\* the queues are cleared after the try block instead of in a finally clause
finallyClause_onlyOnSuccess(r) ==
    IF r.outcome = "ok" THEN [r EXCEPT !.requests = << >>, !.valueRanges = << >>] ELSE r

\* the finally clause forgets the second queue
finallyClause_requestsOnly(r) == [r EXCEPT !.requests = << >>]

\* the finally clause of runPrepared (lines 113-115)
finallyClause(r) == [r EXCEPT !.requests = << >>, !.valueRanges = << >>]

\* runPrepared with the spreadsheet test inside the try block: the finally clause
\* clears the queues on that path too
runPrepared_clearsWhenUnbound(ssid, reqs, vals, valueInputOption, remote) ==
    IF ssid = None
    THEN finallyClause(Result("SpreadsheetNotSetError", None, << >>, reqs, vals))
    ELSE finallyClause(tryBlock(ssid, reqs, vals, valueInputOption, remote))

\* runPrepared raising the sheet error where the spreadsheet error is meant
runPrepared_wrongError(ssid, reqs, vals, valueInputOption, remote) ==
    IF ssid = None
    THEN Result("SheetNotSetError", None, << >>, reqs, vals)
    ELSE finallyClause(tryBlock(ssid, reqs, vals, valueInputOption, remote))

\* Spreadsheet.runPrepared(valueInputOption)
runPrepared(ssid, reqs, vals, valueInputOption, remote) ==
    IF ssid = None
    THEN Result("SpreadsheetNotSetError", None, << >>, reqs, vals)
    ELSE finallyClause(tryBlock(ssid, reqs, vals, valueInputOption, remote))

\* ------------------------------------------------------------- prepare_*
\* each returns the outcome and the queue it appends to; id numbers the new item
Queued(q) == [outcome |-> "ok", queue |-> q]

prepare_addSheet(reqs, id, title, rows, cols) ==
    Queued(Append(reqs, Item(id,
        [addSheet |-> [properties |->
            [title |-> title,
             gridProperties |-> [rowCount |-> rows, columnCount |-> cols]]]])))

\* the request is put at the head of the queue instead of appended
prepare_setDimensionPixelSize_prepend(sid, reqs, id, dimension, startIndex, endIndex, pixelSize) ==
    IF sid = None THEN Raise("SheetNotSetError")
    ELSE Queued(<< Item(id,
            [updateDimensionProperties |->
                [range |-> [sheetId |-> Val(sid), dimension |-> dimension,
                            startIndex |-> startIndex, endIndex |-> endIndex],
                 properties |-> [pixelSize |-> pixelSize],
                 fields |-> "pixelSize"]]) >> \o reqs)

prepare_setDimensionPixelSize(sid, reqs, id, dimension, startIndex, endIndex, pixelSize) ==
    IF sid = None THEN Raise("SheetNotSetError")
    ELSE Queued(Append(reqs, Item(id,
            [updateDimensionProperties |->
                [range |-> [sheetId |-> Val(sid), dimension |-> dimension,
                            startIndex |-> startIndex, endIndex |-> endIndex],
                 properties |-> [pixelSize |-> pixelSize],
                 fields |-> "pixelSize"]])))

prepare_setColumnsWidth(sid, reqs, id, startCol, endCol, width) ==
    prepare_setDimensionPixelSize(sid, reqs, id, "COLUMNS", startCol, endCol + 1, width)

\* prepare_setColumnWidth passing the column itself as the exclusive end
prepare_setColumnWidth_inclusiveEnd(sid, reqs, id, col, width) ==
    prepare_setDimensionPixelSize(sid, reqs, id, "COLUMNS", col, col, width)

prepare_setColumnWidth(sid, reqs, id, col, width) ==
    prepare_setColumnsWidth(sid, reqs, id, col, col, width)

prepare_setRowsHeight(sid, reqs, id, startRow, endRow, height) ==
    prepare_setDimensionPixelSize(sid, reqs, id, "ROWS", startRow, endRow + 1, height)

prepare_setRowHeight(sid, reqs, id, row, height) ==
    prepare_setRowsHeight(sid, reqs, id, row, row, height)

\* str + str
Concat(a, b) == a \o b

\* the "!" between sheet title and range is left out
prepare_setValues_noSeparator(title, vals, id, cellsRange, values, majorDimension) ==
    IF title = None THEN Raise("SheetNotSetError")
    ELSE Queued(Append(vals, Item(id,
            [range |-> Concat(Val(title), cellsRange),
             majorDimension |-> majorDimension,
             values |-> values])))

\* prepare_setValues raising the spreadsheet error where the sheet error is meant
prepare_setValues_wrongError(title, vals, id, cellsRange, values, majorDimension) ==
    IF title = None THEN Raise("SpreadsheetNotSetError")
    ELSE Queued(Append(vals, Item(id,
            [range |-> Concat(Concat(Val(title), << "!" >>), cellsRange),
             majorDimension |-> majorDimension,
             values |-> values])))

prepare_setValues(title, vals, id, cellsRange, values, majorDimension) ==
    IF title = None THEN Raise("SheetNotSetError")
    ELSE Queued(Append(vals, Item(id,
            [range |-> Concat(Concat(Val(title), << "!" >>), cellsRange),
             majorDimension |-> majorDimension,
             values |-> values])))

\* the argument self.toGridRange(cellsRange) is evaluated before the append
prepare_mergeCells(sid, reqs, id, cellsRange, mergeType) ==
    LET g == toGridRange(sid, cellsRange)
    IN  IF g.outcome # "ok" THEN g
        ELSE Queued(Append(reqs, Item(id,
                [mergeCells |-> [range |-> g.value, mergeType |-> mergeType]])))

prepare_setCellsFormat(sid, reqs, id, cellsRange, formatJSON, fields) ==
    LET g == toGridRange(sid, cellsRange)
    IN  IF g.outcome # "ok" THEN g
        ELSE Queued(Append(reqs, Item(id,
                [repeatCell |-> [range |-> g.value,
                                 cell |-> [userEnteredFormat |-> formatJSON],
                                 fields |-> fields]])))

prepare_setCellsFormats(sid, reqs, id, cellsRange, formatsJSON, fields) ==
    LET g == toGridRange(sid, cellsRange)
    IN  IF g.outcome # "ok" THEN g
        ELSE Queued(Append(reqs, Item(id,
                [updateCells |->
                    [range |-> g.value,
                     rows |-> [i \in 1..Len(formatsJSON) |->
                                 [values |-> [j \in 1..Len(formatsJSON[i]) |->
                                     [userEnteredFormat |-> formatsJSON[i][j]]]]],
                     fields |-> fields]])))

\* ----------------------------------------------------------------- addSheet
\* Spreadsheet.addSheet(sheetTitle, rows, cols): the result also carries the
\* sheet identifier and title the session holds afterwards
addSheet(ssid, sid, title, reqs, vals, id, newTitle, rows, cols, remote) ==
    IF ssid = None
    THEN [outcome |-> "SpreadsheetNotSetError", value |-> None, calls |-> << >>,
          requests |-> reqs, valueRanges |-> vals, sheetId |-> sid, sheetTitle |-> title]
    ELSE
    LET r == runPrepared(ssid, prepare_addSheet(reqs, id, newTitle, rows, cols).queue,
                         vals, "USER_ENTERED", remote)
        kept == [outcome |-> r.outcome, value |-> None, calls |-> r.calls,
                 requests |-> r.requests, valueRanges |-> r.valueRanges,
                 sheetId |-> sid, sheetTitle |-> title]
    IN  IF r.outcome # "ok" THEN kept
        ELSE \* runPrepared()[0][0]['addSheet']['properties']
             LET first == r.value[1][1]
             IN  IF "addSheet" \notin DOMAIN first
                 THEN [kept EXCEPT !.outcome = "KeyError"]
                 ELSE LET addedSheet == first.addSheet.properties
                      IN  [kept EXCEPT !.value = addedSheet.sheetId,
                                       !.sheetId = Some(addedSheet.sheetId),
                                       !.sheetTitle = Some(addedSheet.title)]

\* Spreadsheet.getSheetURL(): the URL as the sequence of the strings concatenated
RECURSIVE str(_)
str(n) == IF n < 10 THEN << Digits[n + 1] >> ELSE str(n \div 10) \o << Digits[(n % 10) + 1] >>

\* getSheetURL testing the sheet before the spreadsheet
getSheetURL_sheetFirst(ssid, sid) ==
    IF sid = None THEN Raise("SheetNotSetError")
    ELSE IF ssid = None THEN Raise("SpreadsheetNotSetError")
    ELSE Return(<< "https://docs.google.com/spreadsheets/d/", Val(ssid), "/edit#gid=" >>
                \o str(Val(sid)))

getSheetURL(ssid, sid) ==
    IF ssid = None THEN Raise("SpreadsheetNotSetError")
    ELSE IF sid = None THEN Raise("SheetNotSetError")
    ELSE Return(<< "https://docs.google.com/spreadsheets/d/", Val(ssid), "/edit#gid=" >>
                \o str(Val(sid)))

\* ------------------------------------------------------------------ history
\* a newly queued item: what was asked for, no flush attempted on it, never sent
Asked(kind, asked) == [kind |-> kind, asked |-> Some(asked), att |-> "none", sent |-> 0]

TimesCarried(calls, id) == Cardinality({ c \in 1..Len(calls) : id \in Range(calls[c].ids) })

Pending(reqs, vals) == Range(Ids(reqs)) \cup Range(Ids(vals))

\* the history after a flush attempt on the items pending before it: bound tells
\* whether a spreadsheet was bound, calls are the remote calls issued, and left
\* are the items still queued afterwards
Flushed(h, pending, bound, calls, left) ==
    [i \in 1..Len(h) |->
        IF i \notin pending THEN h[i]
        ELSE [kind |-> h[i].kind,
              asked |-> IF i \in left THEN h[i].asked ELSE None,
              att |-> IF bound THEN "bound" ELSE "unbound",
              sent |-> h[i].sent + TimesCarried(calls, i)]]

Did(op, arg, outcome, value, calls) ==
    [op |-> op, arg |-> arg, outcome |-> outcome, value |-> value, calls |-> calls]

\* ------------------------------------------------------------------ actions
Init ==
    /\ spreadsheetId = None
    /\ sheetId = None
    /\ sheetTitle = None
    /\ requests = << >>
    /\ valueRanges = << >>
    /\ last = Did("__init__", None, "ok", None, << >>)
    /\ hist = << >>

NextItemId == Len(hist) + 1

\* create starting the new spreadsheet with empty queues
Create_clearsQueues(title, newSheetTitle) ==
    \E ok \in BOOLEAN :
        LET spreadsheet == createSpreadsheet(
                [properties |-> [title |-> title],
                 sheets |-> << [properties |-> [sheetType |-> "GRID", sheetId |-> 0,
                                                title |-> newSheetTitle]] >>])
        IN  /\ spreadsheetId' = IF ok THEN Some(spreadsheet.spreadsheetId) ELSE spreadsheetId
            /\ sheetId' = IF ok THEN Some(spreadsheet.sheets[1].properties.sheetId) ELSE sheetId
            /\ sheetTitle' = IF ok THEN Some(spreadsheet.sheets[1].properties.title)
                             ELSE sheetTitle
            /\ last' = Did("create", None, IF ok THEN "ok" ELSE "HttpError", None, << >>)
            /\ requests' = IF ok THEN << >> ELSE requests
            /\ valueRanges' = IF ok THEN << >> ELSE valueRanges
            /\ UNCHANGED hist

Create(title, newSheetTitle) ==
    \E ok \in BOOLEAN :
        LET spreadsheet == createSpreadsheet(
                [properties |-> [title |-> title],
                 sheets |-> << [properties |-> [sheetType |-> "GRID", sheetId |-> 0,
                                                title |-> newSheetTitle]] >>])
        IN  /\ spreadsheetId' = IF ok THEN Some(spreadsheet.spreadsheetId) ELSE spreadsheetId
            /\ sheetId' = IF ok THEN Some(spreadsheet.sheets[1].properties.sheetId) ELSE sheetId
            /\ sheetTitle' = IF ok THEN Some(spreadsheet.sheets[1].properties.title)
                             ELSE sheetTitle
            /\ last' = Did("create", None, IF ok THEN "ok" ELSE "HttpError", None, << >>)
            /\ UNCHANGED << requests, valueRanges, hist >>

SetSpreadsheetById(id) ==
    \E ok \in BOOLEAN :
        LET spreadsheet == getSpreadsheet(id)
        IN  /\ spreadsheetId' = IF ok THEN Some(spreadsheet.spreadsheetId) ELSE spreadsheetId
            /\ sheetId' = IF ok THEN Some(spreadsheet.sheets[1].properties.sheetId) ELSE sheetId
            /\ sheetTitle' = IF ok THEN Some(spreadsheet.sheets[1].properties.title)
                             ELSE sheetTitle
            /\ last' = Did("setSpreadsheetById", None, IF ok THEN "ok" ELSE "HttpError",
                           None, << >>)
            /\ UNCHANGED << requests, valueRanges, hist >>

GetSheetURL ==
    LET r == getSheetURL(spreadsheetId, sheetId)
    IN  /\ last' = Did("getSheetURL", None, r.outcome,
                       IF r.outcome = "ok" THEN r.value ELSE None, << >>)
        /\ UNCHANGED << spreadsheetId, sheetId, sheetTitle, requests, valueRanges, hist >>

\* runPrepared forgetting the current sheet when a remote call fails
RunPrepared_unbindsSheetOnFailure ==
    \E remote \in RemoteOutcomes :
        LET r == runPrepared(spreadsheetId, requests, valueRanges, "USER_ENTERED", remote)
        IN  /\ requests' = r.requests
            /\ valueRanges' = r.valueRanges
            /\ last' = Did("runPrepared", remote, r.outcome, r.value, r.calls)
            /\ hist' = Flushed(hist, Pending(requests, valueRanges), spreadsheetId # None,
                               r.calls, Pending(r.requests, r.valueRanges))
            /\ sheetId' = IF r.outcome = "HttpError" THEN None ELSE sheetId
            /\ sheetTitle' = IF r.outcome = "HttpError" THEN None ELSE sheetTitle
            /\ UNCHANGED spreadsheetId

RunPrepared ==
    \E remote \in RemoteOutcomes :
        LET r == runPrepared(spreadsheetId, requests, valueRanges, "USER_ENTERED", remote)
        IN  /\ requests' = r.requests
            /\ valueRanges' = r.valueRanges
            /\ last' = Did("runPrepared", remote, r.outcome, r.value, r.calls)
            /\ hist' = Flushed(hist, Pending(requests, valueRanges), spreadsheetId # None,
                               r.calls, Pending(r.requests, r.valueRanges))
            /\ UNCHANGED << spreadsheetId, sheetId, sheetTitle >>

AddSheet(newTitle) ==
    /\ NextItemId <= MaxItems
    /\ \E remote \in RemoteOutcomes :
        LET r == addSheet(spreadsheetId, sheetId, sheetTitle, requests, valueRanges,
                          NextItemId, newTitle, DefaultRows, DefaultCols, remote)
            q == prepare_addSheet(requests, NextItemId, newTitle, DefaultRows, DefaultCols).queue
        IN  /\ requests' = r.requests
            /\ valueRanges' = r.valueRanges
            /\ sheetId' = r.sheetId
            /\ sheetTitle' = r.sheetTitle
            /\ last' = Did("addSheet", [title |-> newTitle, remote |-> remote], r.outcome, r.value, r.calls)
            /\ hist' = IF spreadsheetId = None THEN hist
                       ELSE Flushed(Append(hist, Asked("req", q[Len(q)].body)),
                                    Pending(q, valueRanges), TRUE, r.calls,
                                    Pending(r.requests, r.valueRanges))
            /\ UNCHANGED spreadsheetId

ToGridRange(cellsRange) ==
    LET r == toGridRange(sheetId, cellsRange)
    IN  /\ last' = Did("toGridRange", cellsRange, r.outcome,
                       IF r.outcome = "ok" THEN r.value ELSE None, << >>)
        /\ UNCHANGED << spreadsheetId, sheetId, sheetTitle, requests, valueRanges, hist >>

\* a prepare_* call that appends to self.requests, or raises and appends nothing
Structural(op, arg, r) ==
    /\ NextItemId <= MaxItems
    /\ requests' = IF r.outcome = "ok" THEN r.queue ELSE requests
    /\ hist' = IF r.outcome = "ok"
               THEN Append(hist, Asked("req", r.queue[Len(r.queue)].body))
               ELSE hist
    /\ last' = Did(op, arg, r.outcome, None, << >>)
    /\ UNCHANGED << spreadsheetId, sheetId, sheetTitle, valueRanges >>

Prepare_addSheet(title) ==
    Structural("prepare_addSheet", << title >>,
               prepare_addSheet(requests, NextItemId, title, DefaultRows, DefaultCols))

Prepare_setColumnsWidth(startCol, endCol, width) ==
    Structural("prepare_setColumnsWidth", << startCol, endCol, width >>,
               prepare_setColumnsWidth(sheetId, requests, NextItemId, startCol, endCol, width))

Prepare_setColumnWidth(col, width) ==
    Structural("prepare_setColumnWidth", << col, width >>,
               prepare_setColumnWidth(sheetId, requests, NextItemId, col, width))

Prepare_setRowsHeight(startRow, endRow, height) ==
    Structural("prepare_setRowsHeight", << startRow, endRow, height >>,
               prepare_setRowsHeight(sheetId, requests, NextItemId, startRow, endRow, height))

Prepare_setRowHeight(row, height) ==
    Structural("prepare_setRowHeight", << row, height >>,
               prepare_setRowHeight(sheetId, requests, NextItemId, row, height))

Prepare_mergeCells(cellsRange) ==
    Structural("prepare_mergeCells", << cellsRange >>,
               prepare_mergeCells(sheetId, requests, NextItemId, cellsRange, "MERGE_ALL"))

Prepare_setCellsFormat(cellsRange, formatJSON) ==
    Structural("prepare_setCellsFormat", << cellsRange, formatJSON >>,
               prepare_setCellsFormat(sheetId, requests, NextItemId, cellsRange, formatJSON,
                                      "userEnteredFormat"))

Prepare_setCellsFormats(cellsRange, formatsJSON) ==
    Structural("prepare_setCellsFormats", << cellsRange, formatsJSON >>,
               prepare_setCellsFormats(sheetId, requests, NextItemId, cellsRange, formatsJSON,
                                       "userEnteredFormat"))

Prepare_setValues(cellsRange, values, majorDimension) ==
    LET r == prepare_setValues(sheetTitle, valueRanges, NextItemId, cellsRange, values,
                               majorDimension)
    IN  /\ NextItemId <= MaxItems
        /\ valueRanges' = IF r.outcome = "ok" THEN r.queue ELSE valueRanges
        /\ hist' = IF r.outcome = "ok"
                   THEN Append(hist, Asked("val", [title |-> Val(sheetTitle),
                                                   cellsRange |-> cellsRange,
                                                   values |-> values,
                                                   majorDimension |-> majorDimension]))
                   ELSE hist
        /\ last' = Did("prepare_setValues", None, r.outcome, None, << >>)
        /\ UNCHANGED << spreadsheetId, sheetId, sheetTitle, requests >>

\* ------------------------------------------------- the session specification
\* the arguments the operations are called with
PartialRange == [startRowIndex |-> 1, sheetId |-> 99]

Next ==
    \/ Create("doc", T2)
    \/ \E id \in ExistingIds : SetSpreadsheetById(id)
    \/ GetSheetURL
    \/ RunPrepared
    \/ AddSheet(T3)
    \/ \E c \in { StrArg(A3B4), DictArg(PartialRange) } : ToGridRange(c)
    \/ Prepare_addSheet(T2)
    \/ Prepare_setColumnsWidth(0, 1, 150)
    \/ Prepare_setColumnWidth(0, 150)
    \/ Prepare_setRowsHeight(0, 0, 150)
    \/ Prepare_setRowHeight(0, 150)
    \/ Prepare_mergeCells(StrArg(A3B4))
    \/ Prepare_setCellsFormat(StrArg(A3B4), "bold")
    \/ Prepare_setCellsFormats(DictArg(PartialRange), << << "bold" >> >>)
    \/ \E d \in { "ROWS", "COLUMNS" } : Prepare_setValues(A1A1, << << "x" >> >>, d)

Spec == Init /\ [][Next]_vars

\* --------------------------------------------------- the parser specification
\* toGridRange applied once to an input drawn in the initial state: every string
\* of at most MaxLen characters over Alphabet, and every dict over the keys of a
\* GridRange; the session is as constructed or bound by setSpreadsheetById
Alphabet == { "A", "B", "Z", "0", "3", "4", "5", ":" }
RangeStrings == UNION { [1..n -> Alphabet] : n \in 0..MaxLen }

GridRangeKeys == { "sheetId", "startRowIndex", "endRowIndex",
                   "startColumnIndex", "endColumnIndex" }
RangeDicts == UNION { [ks -> { 0, 2 }] : ks \in SUBSET GridRangeKeys }

InitRange ==
    /\ \E id \in ExistingIds \cup { "" } :
          LET spreadsheet == getSpreadsheet(id)
          IN  /\ spreadsheetId = IF id = "" THEN None ELSE Some(spreadsheet.spreadsheetId)
              /\ sheetId = IF id = "" THEN None
                           ELSE Some(spreadsheet.sheets[1].properties.sheetId)
              /\ sheetTitle = IF id = "" THEN None
                              ELSE Some(spreadsheet.sheets[1].properties.title)
    /\ requests = << >>
    /\ valueRanges = << >>
    /\ \E c \in { StrArg(s) : s \in RangeStrings } \cup { DictArg(d) : d \in RangeDicts } :
          last = Did("input", c, "ok", None, << >>)
    /\ hist = << >>

NextRange == last.op = "input" /\ ToGridRange(last.arg)

SpecRange == InitRange /\ [][NextRange]_vars

\* ------------------------------------------------------ the URL specification
\* getSheetURL applied once to a session drawn in the initial state: the
\* attributes spreadsheetId and sheetId each unset or set (the sheet identifier
\* to any integer up to MaxSheetId), with or without queued items
MaxSheetId == 120

InitURL ==
    /\ spreadsheetId \in { None, Some("ss7"), Some("new") }
    /\ sheetId \in { None } \cup { Some(n) : n \in 0..MaxSheetId }
    /\ sheetTitle = IF sheetId = None THEN None ELSE Some(Sheet1)
    /\ requests \in { << >>,
                      prepare_addSheet(<< >>, 1, T2, DefaultRows, DefaultCols).queue }
    /\ valueRanges \in { << >> } \cup
          (IF sheetTitle = None THEN { }
           ELSE { prepare_setValues(sheetTitle, << >>, 2, A1A1, << << "x" >> >>, "ROWS").queue })
    /\ last = Did("input", None, "ok", None, << >>)
    /\ hist = << >>

NextURL == last.op = "input" /\ GetSheetURL

SpecURL == InitURL /\ [][NextURL]_vars

\* ------------------------------------------------ the dimension specification
\* prepare_setColumnWidth or prepare_setRowHeight applied once to an index up
\* to MaxIndex and a pixel size drawn in the initial state; the session is as
\* constructed, or bound by setSpreadsheetById with or without a request queued
MaxIndex == 25
PixelSizes == { 1, 21, 150 }

InitDim ==
    /\ \E id \in ExistingIds \cup { "" } :
          LET spreadsheet == getSpreadsheet(id)
          IN  /\ spreadsheetId = IF id = "" THEN None ELSE Some(spreadsheet.spreadsheetId)
              /\ sheetId = IF id = "" THEN None
                           ELSE Some(spreadsheet.sheets[1].properties.sheetId)
              /\ sheetTitle = IF id = "" THEN None
                              ELSE Some(spreadsheet.sheets[1].properties.title)
    /\ requests \in { << >> } \cup
          (IF sheetId = None THEN { }
           ELSE { prepare_setColumnsWidth(sheetId, << >>, 1, 0, 1, 150).queue })
    /\ valueRanges = << >>
    /\ \E i \in 0..MaxIndex, size \in PixelSizes :
          last = Did("input", << i, size >>, "ok", None, << >>)
    /\ hist = [i \in 1..Len(requests) |-> Asked("req", requests[i].body)]

NextDim ==
    /\ last.op = "input"
    /\ \/ Prepare_setColumnWidth(last.arg[1], last.arg[2])
       \/ Prepare_setRowHeight(last.arg[1], last.arg[2])

SpecDim == InitDim /\ [][NextDim]_vars

\* ===================================================================== claims
\* Every action overwrites last, so in a step of Next that changes the state,
\* last' describes the operation that took the step and the unprimed variables
\* are the state it was called in.
FlushOps == { "runPrepared", "addSheet" }
QueuesEmpty == requests = << >> /\ valueRanges = << >>

\* the identifiers of the items the calls of this step carry
CarriedIds(calls) == UNION { Range(calls[c].ids) : c \in 1..Len(calls) }

\* C1 as stated: after any call of runPrepared completes, whether it returned or
\* raised any error, both queues are empty.
C1_EmptyAfterAnyRunPrepared ==
    last.op = "runPrepared" => QueuesEmpty

\* C1 amended: after a call of runPrepared made with a spreadsheet bound
\* completes, whether it returned or raised a remote-call error, both queues are
\* empty. (runPrepared leaves spreadsheetId alone, so its value after the call is
\* its value at the call.)
C1_EmptyAfterBoundRunPrepared ==
    (last.op = "runPrepared" /\ spreadsheetId # None) => QueuesEmpty

\* C1 witness: a flush whose structural call failed with a value write still
\* unsent has returned, and both queues are empty
C1_Witness ==
    /\ last.op = "runPrepared"
    /\ last.outcome = "HttpError"
    /\ Len(last.calls) = 1
    /\ last.calls[1].api = "batchUpdate"
    /\ \E i \in 1..Len(hist) : hist[i].kind = "val" /\ hist[i].att = "bound" /\ hist[i].sent = 0
    /\ QueuesEmpty

\* C2 as stated: every queued item is carried by at most one outbound call, and
\* an item that was pending when a flush was attempted is never sent by a later
\* flush.
C2_NeverSentAfterAnAttempt ==
    [][ /\ \A i \in 1..Len(hist') : hist'[i].sent <= 1
        /\ \A i \in CarriedIds(last'.calls) \cap (1..Len(hist)) : hist[i].att = "none"
      ]_vars

\* C2 amended: every queued item is carried by at most one outbound call, and an
\* item that was pending when a flush was attempted with a spreadsheet bound is
\* never sent by a later flush (a flush attempted with no spreadsheet bound
\* raises before it touches the queues, and its items stay pending).
C2_NeverSentAfterBoundAttempt ==
    [][ /\ \A i \in 1..Len(hist') : hist'[i].sent <= 1
        /\ \A i \in CarriedIds(last'.calls) \cap (1..Len(hist)) : hist[i].att # "bound"
      ]_vars

\* C2 witness: an item was pending at an earlier flush made with a spreadsheet
\* bound, and a later flush has issued a call, which does not carry it
C2_Witness ==
    /\ last.op = "runPrepared"
    /\ Len(last.calls) > 0
    /\ \E i \in 1..Len(hist) :
          hist[i].att = "bound" /\ hist[i].sent = 1 /\ i \notin CarriedIds(last.calls)

\* C3: with a spreadsheet bound, a runPrepared that directly follows a
\* runPrepared issues no outbound call, returns two empty lists and leaves the
\* session as it was.
C3_SecondRunPreparedIsNoOp ==
    [][ (last.op = "runPrepared" /\ spreadsheetId # None /\ last'.op = "runPrepared")
        => /\ last'.outcome = "ok"
           /\ last'.calls = << >>
           /\ last'.value = << << >>, << >> >>
           /\ UNCHANGED << spreadsheetId, sheetId, sheetTitle, requests, valueRanges >>
      ]_vars

\* C3 witness: runPrepared has returned two empty lists without a call, with a
\* spreadsheet bound and everything queued earlier already flushed
C3_Witness ==
    /\ last.op = "runPrepared"
    /\ spreadsheetId # None
    /\ last.outcome = "ok"
    /\ last.calls = << >>
    /\ hist # << >>
    /\ \A i \in 1..Len(hist) : hist[i].att = "bound"
    /\ QueuesEmpty

Apis(calls) == [c \in 1..Len(calls) |-> calls[c].api]

\* C4: a successful runPrepared issues the structural call exactly when the
\* structural queue is non-empty and the value-write call exactly when the
\* value-write queue is non-empty, never more than two calls, and the reply list
\* of a call that was skipped is empty.
C4_CallsMatchNonEmptyQueues ==
    [][ (last'.op = "runPrepared" /\ last'.outcome = "ok")
        => /\ Apis(last'.calls) =
                 (IF requests # << >> THEN << "batchUpdate" >> ELSE << >>)
                 \o (IF valueRanges # << >> THEN << "values.batchUpdate" >> ELSE << >>)
           /\ Len(last'.calls) <= 2
           /\ requests = << >> => last'.value[1] = << >>
           /\ valueRanges = << >> => last'.value[2] = << >>
           /\ Len(last'.value[1]) = Len(requests)
           /\ Len(last'.value[2]) = Len(valueRanges)
      ]_vars

\* C4 witness: with an empty structural queue and one queued value write,
\* runPrepared has issued exactly the value-write call and returned an empty
\* structural reply list
C4_Witness ==
    /\ last.op = "runPrepared"
    /\ last.outcome = "ok"
    /\ Apis(last.calls) = << "values.batchUpdate" >>
    /\ Len(last.calls[1].ids) = 1
    /\ last.value[1] = << >>
    /\ Len(last.value[2]) = 1

\* the items of one kind queued and not yet through a flush attempt whose
\* standing is in atts, oldest first
QueuedSince(h, kind, atts) ==
    SelectSeq([i \in 1..Len(h) |-> i], LAMBDA i : h[i].kind = kind /\ h[i].att \in atts)

\* the calls of a flush carry the items that hist says were queued since the
\* last attempt (standing in atts), in the order they were queued, structural
\* call first
CarriesQueuedSince(atts) ==
    /\ \A c \in 1..Len(last'.calls) :
          LET call == last'.calls[c]
          IN  IF call.api = "batchUpdate"
              THEN /\ c = 1
                   /\ call.ids = QueuedSince(hist, "req", atts)
                   /\ call.body.requests = [k \in 1..Len(call.ids) |-> Val(hist[call.ids[k]].asked)]
              ELSE /\ c = Len(last'.calls)
                   /\ call.ids = QueuedSince(hist, "val", atts)
                   /\ call.body.data = Bodies(valueRanges)
                   /\ Ids(valueRanges) = call.ids
    /\ Len(last'.calls) <= 2
    /\ Len(last'.calls) = 2 => Apis(last'.calls) = << "batchUpdate", "values.batchUpdate" >>
    \* and whatever was queued since is carried, unless a failure came first
    /\ (spreadsheetId # None /\ QueuedSince(hist, "req", atts) # << >>)
          => (last'.calls # << >> /\ last'.calls[1].api = "batchUpdate")
    /\ (last'.outcome = "ok" /\ QueuedSince(hist, "val", atts) # << >>)
          => (last'.calls # << >> /\ last'.calls[Len(last'.calls)].api = "values.batchUpdate")

\* C5 as stated: the structural call of runPrepared carries exactly the
\* structural requests queued since the previous flush attempt, each once and in
\* insertion order, the value-write call exactly the value writes queued since
\* the previous flush attempt, and the structural call comes first.
C5_CarriesQueuedSinceAttempt ==
    [][ last'.op = "runPrepared" => CarriesQueuedSince({ "none" }) ]_vars

\* C5 amended: ... queued since the previous flush attempt that was made with a
\* spreadsheet bound (a flush attempted with none bound raises and keeps the
\* queues, so what was queued before it is carried too) ...
C5_CarriesQueuedSinceBoundAttempt ==
    [][ last'.op = "runPrepared" => CarriesQueuedSince({ "none", "unbound" }) ]_vars

\* C5 witness: runPrepared has issued the structural call and then the
\* value-write call
C5_Witness ==
    /\ last.op = "runPrepared"
    /\ Apis(last.calls) = << "batchUpdate", "values.batchUpdate" >>
    /\ last.calls[1].body.requests # << >>
    /\ last.calls[2].body.data # << >>

DimensionOps == { "prepare_setColumnsWidth", "prepare_setColumnWidth",
                  "prepare_setRowsHeight", "prepare_setRowHeight" }
NeedSheetOps == DimensionOps \cup { "prepare_mergeCells", "prepare_setCellsFormat",
                                    "prepare_setCellsFormats" }
StructuralOps == { "prepare_addSheet" } \cup NeedSheetOps

\* C6 as stated: while no spreadsheet is bound, queuing any structural request
\* succeeds without error, and the following runPrepared raises
\* SpreadsheetNotSetError.
C6_QueuingNeverFailsUnbound ==
    [][ spreadsheetId = None
        => /\ last'.op \in StructuralOps
                => (last'.outcome = "ok" /\ Len(requests') = Len(requests) + 1)
           /\ last'.op = "runPrepared"
                => (last'.outcome = "SpreadsheetNotSetError" /\ last'.calls = << >>)
      ]_vars

\* C6 amended: while no spreadsheet is bound, prepare_addSheet queues its
\* request without validation and without error, and the failure occurs only at
\* the following runPrepared, which raises SpreadsheetNotSetError; the other
\* structural prepare_* operations (mergeCells, setCellsFormat, setCellsFormats,
\* setDimensionPixelSize and its wrappers) need the sheet identifier, which is
\* unbound whenever the spreadsheet is, and raise SheetNotSetError when called,
\* queuing nothing.
C6_OnlyAddSheetQueuesUnbound ==
    [][ spreadsheetId = None
        => /\ sheetId = None
           /\ last'.op = "prepare_addSheet"
                => (last'.outcome = "ok" /\ Len(requests') = Len(requests) + 1)
           /\ last'.op \in NeedSheetOps
                => (last'.outcome = "SheetNotSetError" /\ requests' = requests)
           /\ last'.op = "runPrepared"
                => (last'.outcome = "SpreadsheetNotSetError" /\ last'.calls = << >>)
      ]_vars

\* C6 witness: a structural request was queued with no spreadsheet bound, and
\* the runPrepared after it has raised SpreadsheetNotSetError
C6_Witness ==
    /\ spreadsheetId = None
    /\ last.op = "runPrepared"
    /\ last.outcome = "SpreadsheetNotSetError"
    /\ Len(requests) > 0

\* C10: a value write queued by prepare_setValues(rangeExpr, values,
\* majorDimension) while sheet title T is bound is carried by the value-write
\* call of the next runPrepared with range T + "!" + rangeExpr and with values
\* and majorDimension as given.
C10_ValueWriteCarriesTitledRange ==
    [][ last'.op = "runPrepared"
        => /\ \A c \in 1..Len(last'.calls) :
                 last'.calls[c].api = "values.batchUpdate"
                 => \A k \in 1..Len(last'.calls[c].ids) :
                       LET asked == Val(hist[last'.calls[c].ids[k]].asked)
                           sent == last'.calls[c].body.data[k]
                       IN  /\ sent.range = asked.title \o << "!" >> \o asked.cellsRange
                           /\ sent.values = asked.values
                           /\ sent.majorDimension = asked.majorDimension
                           /\ DOMAIN sent = { "range", "values", "majorDimension" }
           /\ (last'.outcome = "ok" /\ valueRanges # << >>)
                 => /\ last'.calls # << >>
                    /\ last'.calls[Len(last'.calls)].api = "values.batchUpdate"
                    /\ last'.calls[Len(last'.calls)].ids = Ids(valueRanges)
      ]_vars

\* C10 witness: bound to sheet 7 titled "Sheet1", the write of [["x"]] to
\* "A1:A1" has been flushed, and the call carried range "Sheet1!A1:A1"
C10_Witness ==
    /\ last.op = "runPrepared"
    /\ sheetId = Some(7)
    /\ sheetTitle = Some(Sheet1)
    /\ \E c \in 1..Len(last.calls) :
          /\ last.calls[c].api = "values.batchUpdate"
          /\ last.calls[c].body.data[1].range =
                << "S", "h", "e", "e", "t", "1", "!", "A", "1", ":", "A", "1" >>
          /\ last.calls[c].body.data[1].values = << << "x" >> >>

\* ------------------------------------------------ claims about toGridRange
\* What the specification says of a range string, computed from its text alone:
\* <letter?><digits?>:<letter?><digits?>, letter in A..Z, digits a positive
\* row number.
DigitValue(c) == IndexOf(Digits, c) - 1

RECURSIVE Decimal(_, _)
Decimal(d, acc) == IF d = << >> THEN acc ELSE Decimal(Tail(d), 10 * acc + DigitValue(Head(d)))

HasLetter(t) == t # << >> /\ Head(t) \in Range(Letters)
DigitsOf(t) == IF HasLetter(t) THEN Tail(t) ELSE t
HasDigits(t) == DigitsOf(t) # << >>

IsToken(t) ==
    \/ DigitsOf(t) = << >>
    \/ /\ \A i \in 1..Len(DigitsOf(t)) : DigitsOf(t)[i] \in Range(Digits)
       /\ Decimal(DigitsOf(t), 0) > 0

Colons(s) == { i \in 1..Len(s) : s[i] = ":" }
StartToken(s) == SubSeq(s, 1, (CHOOSE i \in Colons(s) : TRUE) - 1)
EndToken(s) == SubSeq(s, (CHOOSE i \in Colons(s) : TRUE) + 1, Len(s))

HasForm(s) ==
    /\ Cardinality(Colons(s)) = 1
    /\ IsToken(StartToken(s))
    /\ IsToken(EndToken(s))

ImpliedBounds(s, sid) ==
    LET t1 == StartToken(s)
        t2 == EndToken(s)
        keys == { "sheetId" }
                \cup (IF HasLetter(t1) THEN { "startColumnIndex" } ELSE {})
                \cup (IF HasLetter(t2) THEN { "endColumnIndex" } ELSE {})
                \cup (IF HasDigits(t1) THEN { "startRowIndex" } ELSE {})
                \cup (IF HasDigits(t2) THEN { "endRowIndex" } ELSE {})
    IN  [k \in keys |->
            CASE k = "sheetId" -> sid
              [] k = "startColumnIndex" -> IndexOf(Letters, Head(t1)) - 1
              [] k = "endColumnIndex" -> IndexOf(Letters, Head(t2))
              [] k = "startRowIndex" -> Decimal(DigitsOf(t1), 0) - 1
              [] k = "endRowIndex" -> Decimal(DigitsOf(t2), 0)]

AppliedToString == last.op = "toGridRange" /\ last.arg.type = "str"

\* C7 as stated: for every range string of the form
\* <letter?><digits?>:<letter?><digits?>, toGridRange returns a range with
\* exactly the bounds the tokens that are present imply, and no others.
C7_ExactBoundsForEveryForm ==
    (AppliedToString /\ sheetId # None /\ HasForm(last.arg.val))
    => /\ last.outcome = "ok"
       /\ last.value = ImpliedBounds(last.arg.val, Val(sheetId))

\* C7, on the strings both of whose tokens are non-empty: the bounds are exactly
\* the implied ones (what is left of C7 beside the empty-token failure of C8).
C7_ExactBoundsNonEmptyTokens ==
    (AppliedToString /\ sheetId # None /\ HasForm(last.arg.val)
        /\ StartToken(last.arg.val) # << >> /\ EndToken(last.arg.val) # << >>)
    => /\ last.outcome = "ok"
       /\ last.value = ImpliedBounds(last.arg.val, Val(sheetId))

\* C8 as stated: for a range string one of whose sides is an empty token,
\* toGridRange returns normally, with no row bound and no column bound for that
\* side and the other side's bounds set as usual.
C8_EmptyTokenGivesOpenSide ==
    (AppliedToString /\ sheetId # None /\ HasForm(last.arg.val)
        /\ (StartToken(last.arg.val) = << >> \/ EndToken(last.arg.val) = << >>))
    => /\ last.outcome = "ok"
       /\ StartToken(last.arg.val) = << >>
             => DOMAIN last.value \cap { "startRowIndex", "startColumnIndex" } = {}
       /\ EndToken(last.arg.val) = << >>
             => DOMAIN last.value \cap { "endRowIndex", "endColumnIndex" } = {}
       /\ last.value = ImpliedBounds(last.arg.val, Val(sheetId))

\* C9: toGridRange sets sheetId of its result to the session's current sheet
\* identifier, and with no sheet identifier bound it raises SheetNotSetError
\* for every input, string or structured, without producing a range.
C9_SheetIdIsTheBoundOne ==
    last.op = "toGridRange"
    => /\ sheetId = None => last.outcome = "SheetNotSetError"
       /\ last.outcome = "ok"
             => /\ sheetId # None
                /\ "sheetId" \in DOMAIN last.value
                /\ last.value.sheetId = Val(sheetId)

\* C9 witness: a structured range that carried another sheetId has been resolved
\* and carries the bound one
C9_Witness ==
    /\ last.op = "toGridRange"
    /\ last.outcome = "ok"
    /\ last.arg.type = "dict"
    /\ "sheetId" \in DOMAIN last.arg.val
    /\ last.arg.val.sheetId # Val(sheetId)
    /\ last.value.sheetId = Val(sheetId)

\* C11: prepare_setValues called while no sheet title is bound raises
\* SheetNotSetError and leaves both queues unchanged.
C11_SetValuesNeedsSheetTitle ==
    [][ (sheetTitle = None /\ last'.op = "prepare_setValues")
        => /\ last'.outcome = "SheetNotSetError"
           /\ UNCHANGED << requests, valueRanges >>
      ]_vars

\* C11 witness: with a request already queued and no sheet title bound,
\* prepare_setValues has raised SheetNotSetError
C11_Witness ==
    /\ sheetTitle = None
    /\ last.op = "prepare_setValues"
    /\ last.outcome = "SheetNotSetError"
    /\ requests # << >>
    /\ valueRanges = << >>

\* C12 as stated: after addSheet(title) returns successfully, the session's
\* sheet identifier and title are those of the sheet added by that call (the
\* reply aligned with the request the call queued, the last one of its batch),
\* and the returned value is that identifier, whatever was pending in the
\* structural queue at the call.
C12_AddSheetBindsItsOwnSheet ==
    (last.op = "addSheet" /\ last.outcome = "ok")
    => LET sent == last.calls[1].body.requests
           own == batchUpdateReplies(sent)[Len(sent)].addSheet.properties
       IN  /\ own.title = last.arg.title
           /\ sheetTitle = Some(own.title)
           /\ sheetId = Some(own.sheetId)
           /\ last.value = own.sheetId

\* C13: toGridRange given an already-structured range returns a range with the
\* same bound keys and values as the input, except that sheetId is the current
\* sheet identifier; no bound is added, removed or altered.
C13_StructuredRangePassesThrough ==
    (last.op = "toGridRange" /\ last.arg.type = "dict" /\ sheetId # None)
    => /\ last.outcome = "ok"
       /\ DOMAIN last.value = DOMAIN last.arg.val \cup { "sheetId" }
       /\ \A k \in DOMAIN last.arg.val \ { "sheetId" } :
             last.value[k] = last.arg.val[k]
       /\ last.value.sheetId = Val(sheetId)

\* C13 witness: a structured range with some bounds, without a start row and
\* with another sheet's identifier, has been converted
C13_Witness ==
    /\ last.op = "toGridRange"
    /\ last.arg.type = "dict"
    /\ last.outcome = "ok"
    /\ sheetId # None
    /\ DOMAIN last.arg.val = { "sheetId", "endRowIndex", "startColumnIndex" }
    /\ last.arg.val.sheetId # Val(sheetId)

\* C14: getSheetURL returns the URL built from the bound spreadsheet identifier
\* and sheet identifier only when both are bound; it raises
\* SpreadsheetNotSetError when no spreadsheet is bound and SheetNotSetError when
\* a spreadsheet is bound but no sheet is; in every case the identifiers and
\* both queues are left unchanged.
C14_GetSheetURL ==
    [][ last'.op = "getSheetURL"
        => /\ spreadsheetId = None => last'.outcome = "SpreadsheetNotSetError"
           /\ (spreadsheetId # None /\ sheetId = None)
                => last'.outcome = "SheetNotSetError"
           /\ (spreadsheetId # None /\ sheetId # None)
                => /\ last'.outcome = "ok"
                   /\ SubSeq(last'.value, 1, 3) =
                        << "https://docs.google.com/spreadsheets/d/",
                           Val(spreadsheetId), "/edit#gid=" >>
                   /\ Len(last'.value) > 3
                   /\ \A i \in 4..Len(last'.value) : last'.value[i] \in Range(Digits)
                   /\ Decimal(SubSeq(last'.value, 4, Len(last'.value)), 0) = Val(sheetId)
           /\ last'.outcome = "ok" => (spreadsheetId # None /\ sheetId # None)
           /\ UNCHANGED << spreadsheetId, sheetId, sheetTitle, requests, valueRanges >>
      ]_vars

\* C14 witness: getSheetURL has raised SheetNotSetError on a session with a
\* spreadsheet bound, no sheet bound and a request queued
C14_Witness ==
    /\ last.op = "getSheetURL"
    /\ last.outcome = "SheetNotSetError"
    /\ spreadsheetId # None
    /\ sheetId = None
    /\ requests # << >>

\* C15: runPrepared never changes the bound spreadsheet identifier, sheet
\* identifier or sheet title, whether it returns or raises.
C15_RunPreparedKeepsBinding ==
    [][ last'.op = "runPrepared"
        => UNCHANGED << spreadsheetId, sheetId, sheetTitle >> ]_vars

\* C15 witness: a runPrepared whose value-write call failed after the
\* structural call has returned to a session still bound to its sheet
C15_Witness ==
    /\ last.op = "runPrepared"
    /\ last.outcome = "HttpError"
    /\ Len(last.calls) = 2
    /\ spreadsheetId # None
    /\ sheetId # None
    /\ sheetTitle # None

\* the request a dimension update of one index queues on the current sheet
OneIndexUpdate(dimension, i, size) ==
    [updateDimensionProperties |->
        [range |-> [sheetId |-> Val(sheetId), dimension |-> dimension,
                    startIndex |-> i, endIndex |-> i + 1],
         properties |-> [pixelSize |-> size],
         fields |-> "pixelSize"]]

\* C16: for every column c and width w, prepare_setColumnWidth(c, w) queues the
\* same structural request as prepare_setColumnsWidth(c, c, w), a COLUMNS
\* dimension update with startIndex c and exclusive endIndex c + 1 on the
\* current sheet; likewise prepare_setRowHeight(r, h) and
\* prepare_setRowsHeight(r, r, h) with ROWS.
C16_SingleIndexIsRangeOfOne ==
    [][ /\ last'.op = "prepare_setColumnWidth"
            => LET c == last'.arg[1]
                   w == last'.arg[2]
                   ranged == prepare_setColumnsWidth(sheetId, requests, NextItemId, c, c, w)
               IN  /\ last'.outcome = ranged.outcome
                   /\ ranged.outcome # "ok" => requests' = requests
                   /\ ranged.outcome = "ok"
                        => /\ requests' = ranged.queue
                           /\ requests' = Append(requests,
                                 Item(NextItemId, OneIndexUpdate("COLUMNS", c, w)))
        /\ last'.op = "prepare_setRowHeight"
            => LET r == last'.arg[1]
                   h == last'.arg[2]
                   ranged == prepare_setRowsHeight(sheetId, requests, NextItemId, r, r, h)
               IN  /\ last'.outcome = ranged.outcome
                   /\ ranged.outcome # "ok" => requests' = requests
                   /\ ranged.outcome = "ok"
                        => /\ requests' = ranged.queue
                           /\ requests' = Append(requests,
                                 Item(NextItemId, OneIndexUpdate("ROWS", r, h)))
      ]_vars

\* C16 witness: prepare_setColumnWidth(3, 21) has queued its request behind
\* another one
C16_Witness ==
    /\ last.op = "prepare_setColumnWidth"
    /\ last.outcome = "ok"
    /\ last.arg = << 3, 21 >>
    /\ Len(requests) = 2
    /\ requests[2].body.updateDimensionProperties.range.endIndex = 4

\* the GridRange invariant: every bound present is non-negative, and in each
\* dimension where both bounds are present, start <= end
GridRangeInvariant(g) ==
    /\ \A k \in DOMAIN g \ { "sheetId" } : g[k] >= 0
    /\ { "startRowIndex", "endRowIndex" } \subseteq DOMAIN g
          => g.startRowIndex <= g.endRowIndex
    /\ { "startColumnIndex", "endColumnIndex" } \subseteq DOMAIN g
          => g.startColumnIndex <= g.endColumnIndex

\* the first two colon-separated tokens of s carry positive row numbers, and
\* the start token's row number and column letter do not exceed the end token's
InOrder(s) ==
    LET t1 == Split(s, ":")[1]
        t2 == Split(s, ":")[2]
    IN  /\ HasDigits(t1) => Decimal(DigitsOf(t1), 0) >= 1
        /\ HasDigits(t2) => Decimal(DigitsOf(t2), 0) >= 1
        /\ (HasDigits(t1) /\ HasDigits(t2))
              => Decimal(DigitsOf(t1), 0) <= Decimal(DigitsOf(t2), 0)
        /\ (HasLetter(t1) /\ HasLetter(t2))
              => IndexOf(Letters, Head(t1)) <= IndexOf(Letters, Head(t2))

\* C17 as stated: every GridRange that toGridRange produces from a range string
\* satisfies the GridRange invariant: each bound present is non-negative, and
\* start <= end in each dimension where both are present.
C17_EveryParsedRangeIsValid ==
    (AppliedToString /\ last.outcome = "ok") => GridRangeInvariant(last.value)

\* C17 amended: every GridRange that toGridRange produces from a range string
\* whose row numbers are positive and whose start row and start column do not
\* exceed its end row and end column satisfies the GridRange invariant
\* (toGridRange neither validates nor reorders the tokens).
C17_ParsedRangeOfOrderedStringIsValid ==
    (AppliedToString /\ last.outcome = "ok" /\ InOrder(last.arg.val))
    => GridRangeInvariant(last.value)

\* C17 witness: "B3:B3", one cell, has been converted to rows [2, 3) and
\* columns [1, 2)
C17_Witness ==
    /\ AppliedToString
    /\ last.arg.val = << "B", "3", ":", "B", "3" >>
    /\ last.outcome = "ok"
    /\ last.value.startRowIndex = 2
    /\ last.value.endRowIndex = 3
    /\ last.value.startColumnIndex = 1
    /\ last.value.endColumnIndex = 2

\* C18: if the structural batch call of a runPrepared fails, the failure reaches
\* the caller, the value-write call of that flush is never issued, and both
\* queues, the unsent value writes included, are empty afterwards; if only the
\* value-write call fails, the structural requests have already been sent and
\* both queues are likewise empty. (last'.arg tells which calls the service
\* answers in this step.)
C18_FailedCallClearsBothQueues ==
    [][ (last'.op = "runPrepared" /\ spreadsheetId # None)
        => LET structuralFails == requests # << >> /\ ~last'.arg.batchUpdate
               valueWriteFails == valueRanges # << >> /\ ~last'.arg.valuesBatchUpdate
           IN  /\ structuralFails
                    => /\ last'.outcome = "HttpError"
                       /\ Apis(last'.calls) = << "batchUpdate" >>
                       /\ requests' = << >>
                       /\ valueRanges' = << >>
               /\ (valueWriteFails /\ ~structuralFails)
                    => /\ last'.outcome = "HttpError"
                       /\ Apis(last'.calls) =
                             (IF requests # << >> THEN << "batchUpdate" >> ELSE << >>)
                             \o << "values.batchUpdate" >>
                       /\ requests # << >> => last'.calls[1].ids = Ids(requests)
                       /\ requests' = << >>
                       /\ valueRanges' = << >>
      ]_vars

\* C18 witness: the structural call of a flush has failed where the service
\* would have answered the value-write call; the value write queued for that
\* flush was never sent and is no longer queued
C18_Witness ==
    /\ last.op = "runPrepared"
    /\ last.arg = [batchUpdate |-> FALSE, valuesBatchUpdate |-> TRUE]
    /\ last.outcome = "HttpError"
    /\ Apis(last.calls) = << "batchUpdate" >>
    /\ \E i \in 1..Len(hist) :
          hist[i].kind = "val" /\ hist[i].att = "bound" /\ hist[i].sent = 0
    /\ valueRanges = << >>

\* C19: runPrepared called while no spreadsheet is bound raises
\* SpreadsheetNotSetError, issues no outbound call, and leaves both queues
\* exactly as they were.
C19_UnboundRunPreparedKeepsQueues ==
    [][ (spreadsheetId = None /\ last'.op = "runPrepared")
        => /\ last'.outcome = "SpreadsheetNotSetError"
           /\ last'.calls = << >>
           /\ UNCHANGED << requests, valueRanges >>
      ]_vars

\* C19 witness: runPrepared has raised SpreadsheetNotSetError with no
\* spreadsheet bound, and the request that was pending at the call is still
\* queued and was never sent
C19_Witness ==
    /\ spreadsheetId = None
    /\ last.op = "runPrepared"
    /\ last.outcome = "SpreadsheetNotSetError"
    /\ last.calls = << >>
    /\ \E i \in 1..Len(hist) :
          /\ hist[i].att = "unbound"
          /\ hist[i].sent = 0
          /\ i \in Range(Ids(requests))

\* C20: if the remote call made by addSheet fails, the error reaches the
\* caller, the session's sheet identifier and title (and spreadsheet) remain
\* those bound before the call, and both queues are empty: the addSheet request
\* and everything else that was pending are dropped.
C20_FailedAddSheetKeepsSheet ==
    [][ /\ last'.op = "addSheet"
        /\ spreadsheetId # None
        /\ \/ ~last'.arg.remote.batchUpdate
           \/ valueRanges # << >> /\ ~last'.arg.remote.valuesBatchUpdate
        => /\ last'.outcome = "HttpError"
           /\ UNCHANGED << spreadsheetId, sheetId, sheetTitle >>
           /\ requests' = << >>
           /\ valueRanges' = << >>
      ]_vars

\* C20 witness: addSheet's structural call has failed with another request
\* pending; the session is still on the sheet bound by setSpreadsheetById and
\* nothing is queued
C20_Witness ==
    /\ last.op = "addSheet"
    /\ last.outcome = "HttpError"
    /\ ~last.arg.remote.batchUpdate
    /\ Len(last.calls[1].ids) = 2
    /\ sheetId = Some(7)
    /\ sheetTitle = Some(Sheet1)
    /\ QueuesEmpty
RebindOps == { "create", "setSpreadsheetById" }

====
